---- MODULE Spec2Model ----
(***************************************************************************)
(* ConfigSpace text dialects: the explicit dialect (io/pcs_new.py) and the *)
(* compact dialect (io/irace.py).  Text is a TLA+ string; a character is a *)
(* string of length one.  The pyparsing expressions of the two files are   *)
(* operators from (text, position) to a parse result; read and write are   *)
(* operators translated statement by statement from the two files.         *)
(***************************************************************************)
EXTENDS Integers, Sequences, FiniteSets, TLC

(***************************************************************************)
(* Python strings and lists                                                *)
(***************************************************************************)
Char(s, i) == IF i >= 1 /\ i <= Len(s) THEN SubSeq(s, i, i) ELSE ""

Min(a, b) == IF a < b THEN a ELSE b
Max(a, b) == IF a > b THEN a ELSE b

\* sub in s (str.__contains__)
Contains(sub, s) ==
  \E i \in 1..(Len(s) - Len(sub) + 1) : SubSeq(s, i, i + Len(sub) - 1) = sub

\* s.find(sub), as a 1-based position; 0 when sub does not occur
Find(sub, s) ==
  IF Contains(sub, s)
  THEN CHOOSE i \in 1..(Len(s) - Len(sub) + 1) :
         /\ SubSeq(s, i, i + Len(sub) - 1) = sub
         /\ \A j \in 1..(i - 1) : SubSeq(s, j, j + Len(sub) - 1) # sub
  ELSE 0

StartsWith(s, p) == Len(s) >= Len(p) /\ SubSeq(s, 1, Len(p)) = p
EndsWith(s, p) == Len(s) >= Len(p) /\ SubSeq(s, Len(s) - Len(p) + 1, Len(s)) = p

WhiteChars == {" ", "\t", "\n", "\r"}

\* s.strip()
RECURSIVE LStrip(_)
LStrip(s) == IF Len(s) > 0 /\ Char(s, 1) \in WhiteChars THEN LStrip(Tail(s)) ELSE s
RECURSIVE RStrip(_)
RStrip(s) ==
  IF Len(s) > 0 /\ Char(s, Len(s)) \in WhiteChars
  THEN RStrip(SubSeq(s, 1, Len(s) - 1)) ELSE s
Strip(s) == RStrip(LStrip(s))

\* s.split(sep) for a single character sep: a sequence of strings
RECURSIVE Split(_, _)
Split(s, sep) ==
  IF ~Contains(sep, s) THEN <<s>>
  ELSE <<SubSeq(s, 1, Find(sep, s) - 1)>>
       \o Split(SubSeq(s, Find(sep, s) + 1, Len(s)), sep)

\* sep.join(parts)
RECURSIVE Join(_, _)
Join(sep, parts) ==
  IF Len(parts) = 0 THEN ""
  ELSE IF Len(parts) = 1 THEN parts[1]
       ELSE parts[1] \o sep \o Join(sep, Tail(parts))

\* s.replace(c, "") for a single character c
RemoveChar(s, c) == Join("", Split(s, c))

\* seq[start:stop:step] with 0-based start >= 0, step >= 1 and a stop that
\* may be negative (counted from the end); None for stop is Len(seq)
RECURSIVE SliceFrom(_, _, _, _)
SliceFrom(seq, i, stop, step) ==
  IF i >= stop THEN <<>>
  ELSE <<seq[i + 1]>> \o SliceFrom(seq, i + step, stop, step)
Slice(seq, start, stop, step) ==
  LET n == Len(seq)
      e == IF stop < 0 THEN Max(n + stop, 0) ELSE Min(stop, n)
  IN SliceFrom(seq, start, e, step)

InList(x, seq) == \E i \in 1..Len(seq) : seq[i] = x

(***************************************************************************)
(* pyparsing: an expression applied to text s at position i yields         *)
(* [ok, toks, pos]: whether it matched, the tokens it produced and the     *)
(* position after the match.  Every expression first skips whitespace;     *)
(* inside Combine the parts are adjacent (no whitespace is skipped).       *)
(* parseString matches a prefix of the text: what follows the match is     *)
(* never looked at.                                                        *)
(***************************************************************************)
NoMatch == [ok |-> FALSE, toks |-> <<>>, pos |-> 1]
Match(toks, pos) == [ok |-> TRUE, toks |-> toks, pos |-> pos]

RECURSIVE SkipWhite(_, _)
SkipWhite(s, i) == IF Char(s, i) \in WhiteChars THEN SkipWhite(s, i + 1) ELSE i

\* the position after the longest run of characters of chars starting at i
RECURSIVE RunEnd(_, _, _)
RunEnd(s, i, chars) == IF Char(s, i) \in chars THEN RunEnd(s, i + 1, chars) ELSE i

\* pyparsing.Word(chars)
Word(s, i, chars) ==
  LET j == SkipWhite(s, i)
      k == RunEnd(s, j, chars)
  IN IF k > j THEN Match(<<SubSeq(s, j, k - 1)>>, k) ELSE NoMatch

\* pyparsing.Literal(lit), also a bare string inside an expression
Literal(s, i, lit) ==
  LET j == SkipWhite(s, i)
  IN IF SubSeq(s, j, Min(j + Len(lit) - 1, Len(s))) = lit
     THEN Match(<<lit>>, j + Len(lit)) ELSE NoMatch

\* pyparsing.Optional(e): r is e applied at i
Optional(r, i) == IF r.ok THEN r ELSE Match(<<>>, i)

\* a + b: r is a's result, n is b applied at r.pos
And(r, n) == IF r.ok /\ n.ok THEN Match(r.toks \o n.toks, n.pos) ELSE NoMatch

\* r + e and r + Optional(e), for an expression e given as a function of the
\* position it is applied at
Then(r, e(_)) == And(r, e(r.pos))
ThenOptional(r, e(_)) == And(r, Optional(e(r.pos), r.pos))

\* a | b (MatchFirst)
MatchFirst(a, b) == IF a.ok THEN a ELSE b

\* Optional(OneOrMore(e)): r is e applied at i, more the repetitions after it
ZeroOrMore(r, i, more(_)) == IF r.ok THEN And(r, more(r.pos)) ELSE Match(<<>>, i)

Digits == {"0", "1", "2", "3", "4", "5", "6", "7", "8", "9"}
alphanums ==
  {"a", "b", "c", "d", "e", "f", "g", "h", "i", "j", "k", "l", "m",
   "n", "o", "p", "q", "r", "s", "t", "u", "v", "w", "x", "y", "z",
   "A", "B", "C", "D", "E", "F", "G", "H", "I", "J", "K", "L", "M",
   "N", "O", "P", "Q", "R", "S", "T", "U", "V", "W", "X", "Y", "Z"} \cup Digits

(***************************************************************************)
(* The lexical grammar (the same in both files)                            *)
(***************************************************************************)
NameChars == alphanums \cup {"_", "-", "@", ".", ":", ";", "\\", "/", "?", "!",
                             "$", "%", "&", "*", "+", "<", ">"}
pp_param_name(s, i) == Word(s, i, NameChars)

\* Optional(pp_plusorminus), adjacent: the position after an optional sign
SignEnd(s, i) == IF Char(s, i) \in {"+", "-"} THEN i + 1 ELSE i

\* The adjacent matchers give the position after the match, 0 for no match.
\* a | b on positions
OrElse(a, b) == IF a # 0 THEN a ELSE b

\* Word(pp_digits), adjacent at j
DigitsEnd(s, j) == IF RunEnd(s, j, Digits) > j THEN RunEnd(s, j, Digits) ELSE 0

\* pp_int = Combine(Optional(pp_plusorminus) + Word(pp_digits))
IntEnd(s, i) == DigitsEnd(s, SignEnd(s, i))

\* "." + pp_int, adjacent at k
FractionEnd(s, k) == IF Char(s, k) = "." THEN IntEnd(s, k + 1) ELSE 0

\* pp_float = Combine(Optional(pp_plusorminus) + Optional(pp_int) + "." + pp_int)
FloatEnd(s, i) == FractionEnd(s, OrElse(IntEnd(s, SignEnd(s, i)), SignEnd(s, i)))

\* pp_floatorint = pp_float | pp_int
FloatOrIntEnd(s, i) == OrElse(FloatEnd(s, i), IntEnd(s, i))

\* pp_eorE + pp_int, adjacent after a pp_floatorint that ended at a
ExponentEnd(s, a) ==
  IF a # 0 /\ Char(s, a) \in {"e", "E"} THEN IntEnd(s, a + 1) ELSE 0

\* pp_e_notation = Combine(pp_floatorint + pp_eorE + pp_int)
ENotationEnd(s, i) == ExponentEnd(s, FloatOrIntEnd(s, i))

\* the token of a Combine that matched s from j up to k
Combine(s, j, k) == IF k # 0 THEN Match(<<SubSeq(s, j, k - 1)>>, k) ELSE NoMatch

\* pp_e_notation | pp_float | pp_int at j, whitespace skipped
NumberAt(s, j) ==
  Combine(s, j, OrElse(ENotationEnd(s, j), OrElse(FloatEnd(s, j), IntEnd(s, j))))

\* pp_number = pp_e_notation | pp_float | pp_int
pp_number(s, i) == NumberAt(s, SkipWhite(s, i))

pp_numberorname(s, i) == MatchFirst(pp_number(s, i), pp_param_name(s, i))

\* OneOrMore("," + pp_param_name), made optional: zero or more repetitions
RECURSIVE MoreChoices(_, _)
MoreChoices(s, i) ==
  ZeroOrMore(Then(Literal(s, i, ","), LAMBDA j : pp_param_name(s, j)), i,
             LAMBDA j : MoreChoices(s, j))

\* pp_choices = pp_param_name + Optional(OneOrMore("," + pp_param_name))
pp_choices(s, i) == Then(pp_param_name(s, i), LAMBDA j : MoreChoices(s, j))

\* pp_param_name + "=" + pp_numberorname after r
ThenPair(r, s) ==
  Then(Then(Then(r, LAMBDA j : pp_param_name(s, j)),
            LAMBDA j : Literal(s, j, "=")),
       LAMBDA j : pp_numberorname(s, j))

\* OneOrMore("," + pp_param_name + "=" + pp_numberorname), made optional
RECURSIVE MorePairs(_, _)
MorePairs(s, i) ==
  ZeroOrMore(ThenPair(Literal(s, i, ","), s), i, LAMBDA j : MorePairs(s, j))

\* pp_forbidden_clause.parseString(s)
pp_forbidden_clause(s) ==
  Then(Then(ThenPair(Literal(s, 1, "{"), s),
            LAMBDA j : MorePairs(s, j)),
       LAMBDA j : Literal(s, j, "}"))

(***************************************************************************)
(* The line grammars of the explicit dialect (pcs_new.py)                  *)
(***************************************************************************)
\* Word("in" + "!=" + "==" + ">" + "<"): any run of these characters
pp_param_operation(s, i) == Word(s, i, {"i", "n", "!", "=", ">", "<"})
\* Word(alphanums + pp_digits)
pp_param_val(s, i) == Word(s, i, alphanums \cup Digits)
\* Word("integer" + "real" + "categorical"): any run of these characters
pp_param_type(s, i) ==
  Word(s, i, {"i", "n", "t", "e", "g", "r", "a", "l", "c", "o"})
\* Word("log")
pp_log(s, i) == Word(s, i, {"l", "o", "g"})
\* Word("||" + "&&")
pp_connective(s, i) == Word(s, i, {"|", "&"})

\* "[" + pp_number + "," + pp_number + "]" + "[" + pp_number + "]" after r
ThenRangeAndDefault(r, s) ==
  Then(Then(Then(Then(Then(Then(Then(r,
    LAMBDA j : Literal(s, j, "[")),
    LAMBDA j : pp_number(s, j)),
    LAMBDA j : Literal(s, j, ",")),
    LAMBDA j : pp_number(s, j)),
    LAMBDA j : Literal(s, j, "]")),
    LAMBDA j : Literal(s, j, "[")),
    LAMBDA j : pp_number(s, j))

\* "{" + pp_choices + "}" + "[" + pp_param_name + "]" after r
ThenChoicesAndDefault(r, s) ==
  Then(Then(Then(Then(Then(Then(r,
    LAMBDA j : Literal(s, j, "{")),
    LAMBDA j : pp_choices(s, j)),
    LAMBDA j : Literal(s, j, "}")),
    LAMBDA j : Literal(s, j, "[")),
    LAMBDA j : pp_param_name(s, j)),
    LAMBDA j : Literal(s, j, "]"))

\* pp_cont_param.parseString(s)
pcs_pp_cont_param(s) ==
  ThenOptional(
    Then(ThenRangeAndDefault(Then(pp_param_name(s, 1),
                                  LAMBDA j : pp_param_type(s, j)), s),
         LAMBDA j : Literal(s, j, "]")),
    LAMBDA j : pp_log(s, j))

\* pp_cat_param.parseString(s)
pcs_pp_cat_param(s) ==
  ThenChoicesAndDefault(Then(pp_param_name(s, 1), LAMBDA j : pp_param_type(s, j)), s)

\* pp_connective + pp_param_name + pp_param_operation + pp_param_val
SecondClause(s, i) ==
  Then(Then(Then(pp_connective(s, i),
    LAMBDA j : pp_param_name(s, j)),
    LAMBDA j : pp_param_operation(s, j)),
    LAMBDA j : pp_param_val(s, j))

\* pp_param_name + "|" + pp_param_name: the head of a condition line
ConditionHead(s) ==
  Then(Then(pp_param_name(s, 1),
    LAMBDA j : Literal(s, j, "|")),
    LAMBDA j : pp_param_name(s, j))

\* pp_condition.parseString(s)
pcs_pp_condition(s) ==
  ThenOptional(ThenOptional(Then(ThenOptional(Then(ConditionHead(s),
    LAMBDA j : pp_param_operation(s, j)),
    LAMBDA j : Literal(s, j, "{")),
    LAMBDA j : pp_param_val(s, j)),
    LAMBDA j : Literal(s, j, "}")),
    LAMBDA j : SecondClause(s, j))

(***************************************************************************)
(* The line grammars of the compact dialect (irace.py)                     *)
(***************************************************************************)
\* Word("il")
pp_il(s, i) == Word(s, i, {"i", "l"})

\* pp_cont_param.parseString(s)
irace_pp_cont_param(s) ==
  ThenOptional(
    Then(ThenRangeAndDefault(pp_param_name(s, 1), s),
         LAMBDA j : Literal(s, j, "]")),
    LAMBDA j : pp_il(s, j))

\* pp_cat_param.parseString(s)
irace_pp_cat_param(s) == ThenChoicesAndDefault(pp_param_name(s, 1), s)

\* pp_condition.parseString(s)
irace_pp_condition(s) ==
  Then(Then(Then(Then(ConditionHead(s),
    LAMBDA j : Literal(s, j, "in")),
    LAMBDA j : Literal(s, j, "{")),
    LAMBDA j : pp_choices(s, j)),
    LAMBDA j : Literal(s, j, "}"))

(***************************************************************************)
(* Python numbers.  A float is an exact decimal [m, e] meaning m * 10^e,   *)
(* normalised (m carries no trailing zero; zero is [0, 0]); an int is a    *)
(* TLA+ integer.                                                           *)
(***************************************************************************)
DigitSeq == <<"0", "1", "2", "3", "4", "5", "6", "7", "8", "9">>
DigitVal(c) == (CHOOSE n \in 1..Len(DigitSeq) : DigitSeq[n] = c) - 1
AllDigits(s) == \A i \in 1..Len(s) : Char(s, i) \in Digits

RECURSIVE NatOf(_)
NatOf(s) ==
  IF Len(s) = 0 THEN 0
  ELSE NatOf(SubSeq(s, 1, Len(s) - 1)) * Len(DigitSeq) + DigitVal(Char(s, Len(s)))

RECURSIVE NatStr(_)
NatStr(n) ==
  IF n < Len(DigitSeq) THEN DigitSeq[n + 1]
  ELSE NatStr(n \div Len(DigitSeq)) \o DigitSeq[(n % Len(DigitSeq)) + 1]

\* "%d" % n and str(n) for an int n
IntStr(n) == IF n < 0 THEN "-" \o NatStr(0 - n) ELSE NatStr(n)

RECURSIVE Pow10(_)
Pow10(k) == IF k <= 0 THEN 1 ELSE Len(DigitSeq) * Pow10(k - 1)

RECURSIVE Normalise(_, _)
Normalise(m, e) ==
  IF m = 0 THEN [m |-> 0, e |-> 0]
  ELSE IF m % Len(DigitSeq) = 0 THEN Normalise(m \div Len(DigitSeq), e + 1)
       ELSE [m |-> m, e |-> e]

RECURSIVE Zeros(_)
Zeros(k) == IF k <= 0 THEN "" ELSE "0" \o Zeros(k - 1)

Raise(err) == [ok |-> FALSE, err |-> err]
Return(val) == [ok |-> TRUE, val |-> val]

\* r is the outcome of a statement: the statements after it run on its value,
\* unless it raised, and then they are skipped and the exception goes up
Try(r, rest(_)) == IF r.ok THEN rest(r.val) ELSE r

IsNegative(tok) == Char(tok, 1) = "-"
Unsigned(tok) == IF Char(tok, 1) \in {"+", "-"} THEN Tail(tok) ELSE tok
Signed(neg, n) == IF neg THEN 0 - n ELSE n
\* the text before and after the character at k; all and nothing when k = 0
Before(s, k) == IF k = 0 THEN s ELSE SubSeq(s, 1, k - 1)
After(s, k) == IF k = 0 THEN "" ELSE SubSeq(s, k + 1, Len(s))

\* the value of [sign] ip [. fp] [e expo]
FloatOfParts(neg, ip, fp, hasExp, expo) ==
  IF /\ AllDigits(ip) /\ AllDigits(fp) /\ Len(ip) + Len(fp) > 0
     /\ AllDigits(Unsigned(expo))
     /\ (hasExp => Len(Unsigned(expo)) > 0)
  THEN Return(Normalise(Signed(neg, NatOf(ip \o fp)),
                        Signed(IsNegative(expo), NatOf(Unsigned(expo))) - Len(fp)))
  ELSE Raise("ValueError")

FloatOfMantissa(neg, mant, dot, hasExp, expo) ==
  FloatOfParts(neg, Before(mant, dot), After(mant, dot), hasExp, expo)

FloatOfBody(neg, body, ePos) ==
  FloatOfMantissa(neg, Before(body, ePos), Find(".", Before(body, ePos)),
                  ePos # 0, After(body, ePos))

\* float(tok) for a token of pp_number: [sign] digits [. digits] [e [sign] digits]
PyFloat(tok) ==
  FloatOfBody(IsNegative(tok), Unsigned(tok),
              OrElse(Find("e", Unsigned(tok)), Find("E", Unsigned(tok))))

\* str(x) for a float x (repr: positional for 1e-4 <= |x| < 1e16)
FloatStr(x) ==
  LET sign == IF x.m < 0 THEN "-" ELSE ""
      d == NatStr(IF x.m < 0 THEN 0 - x.m ELSE x.m)
      n == Len(d)
      decpt == n + x.e
      eabs == IF decpt - 1 < 0 THEN 1 - decpt ELSE decpt - 1
      exps == (IF decpt - 1 < 0 THEN "-" ELSE "+")
              \o (IF eabs < Len(DigitSeq) THEN "0" ELSE "") \o NatStr(eabs)
  IN IF x.m = 0 THEN "0.0"
     ELSE IF decpt > 0 - 4 /\ decpt <= 16
     THEN sign \o (IF decpt <= 0 THEN "0." \o Zeros(0 - decpt) \o d
                   ELSE IF decpt >= n THEN d \o Zeros(decpt - n) \o ".0"
                   ELSE SubSeq(d, 1, decpt) \o "." \o SubSeq(d, decpt + 1, n))
     ELSE sign \o Char(d, 1) \o (IF n > 1 THEN "." \o Tail(d) ELSE "")
               \o "e" \o exps

\* int(x) for a float x: truncation towards zero
FloatToInt(x) ==
  IF x.e >= 0 THEN x.m * Pow10(x.e)
  ELSE IF x.m >= 0 THEN x.m \div Pow10(0 - x.e)
       ELSE 0 - ((0 - x.m) \div Pow10(0 - x.e))

\* x < y for floats
FloatLess(x, y) ==
  LET k == Min(x.e, y.e)
  IN x.m * Pow10(x.e - k) < y.m * Pow10(y.e - k)

(***************************************************************************)
(* The domain model: hyperparameters, conditions, forbidden clauses and    *)
(* the configuration space.  Conditions and forbidden clauses refer to     *)
(* hyperparameters by name.  A configuration space also records the        *)
(* sequence of add_* calls that populated it.                              *)
(***************************************************************************)
\* the quantization of a numerical hyperparameter: None or a number
NoQ == [none |-> TRUE]
Quantization(q) == [none |-> FALSE, val |-> q]

UniformFloatHyperparameter(name, lower, upper, q, log, default) ==
  IF FloatLess(lower, upper) /\ ~FloatLess(default, lower) /\ ~FloatLess(upper, default)
  THEN Return([type |-> "UniformFloat", name |-> name, lower |-> lower,
               upper |-> upper, default |-> default, log |-> log, q |-> q])
  ELSE Raise("ValidationError")

IntegerHyperparameter(name, lo, up, q, log, df) ==
  IF lo < up /\ lo <= df /\ df <= up
  THEN Return([type |-> "UniformInteger", name |-> name, lower |-> lo,
               upper |-> up, default |-> df, log |-> log, q |-> q])
  ELSE Raise("ValidationError")

\* the numeric fields arrive as floats and are narrowed to int
UniformIntegerHyperparameter(name, lower, upper, q, log, default) ==
  IntegerHyperparameter(name, FloatToInt(lower), FloatToInt(upper), q, log,
                        FloatToInt(default))

CategoricalHyperparameter(name, choices, default) ==
  IF Len(choices) > 0 /\ InList(default, choices)
     /\ \A i, j \in 1..Len(choices) : choices[i] = choices[j] => i = j
  THEN Return([type |-> "Categorical", name |-> name, choices |-> choices,
               default |-> default])
  ELSE Raise("ValidationError")

Constant(name, value) == [type |-> "Constant", name |-> name, value |-> value]

EqualsCondition(child, parent, value) ==
  [type |-> "Equals", child |-> child, parent |-> parent, value |-> value]
NotEqualsCondition(child, parent, value) ==
  [type |-> "NotEquals", child |-> child, parent |-> parent, value |-> value]
InCondition(child, parent, values) ==
  [type |-> "In", child |-> child, parent |-> parent, values |-> values]
AndConjunction(components) == [type |-> "And", components |-> components]
OrConjunction(components) == [type |-> "Or", components |-> components]

ForbiddenEqualsClause(hyperparameter, value) ==
  [type |-> "ForbiddenEquals", hyperparameter |-> hyperparameter, value |-> value]
ForbiddenInClause(hyperparameter, values) ==
  [type |-> "ForbiddenIn", hyperparameter |-> hyperparameter, values |-> values]
ForbiddenAndConjunction(components) ==
  [type |-> "ForbiddenAnd", components |-> components]

\* the atomics of a forbidden clause, in the order they are visited
RECURSIVE get_descendant_literal_clauses(_)
get_descendant_literal_clauses(clause) ==
  IF clause.type = "ForbiddenAnd"
  THEN LET c == clause.components
           F[i \in 0..Len(c)] ==
             IF i = 0 THEN <<>>
             ELSE F[i - 1] \o get_descendant_literal_clauses(c[i])
       IN F[Len(c)]
  ELSE <<clause>>

\* the leaves of a condition, in order
RECURSIVE ConditionLeaves(_)
ConditionLeaves(cond) ==
  IF cond.type \in {"And", "Or"}
  THEN LET c == cond.components
           F[i \in 0..Len(c)] ==
             IF i = 0 THEN <<>> ELSE F[i - 1] \o ConditionLeaves(c[i])
       IN F[Len(c)]
  ELSE <<cond>>

ConfigurationSpace ==
  [hps |-> <<>>, conds |-> <<>>, forbs |-> <<>>, calls |-> <<>>]

HasHyperparameter(cs, name) == \E i \in 1..Len(cs.hps) : cs.hps[i].name = name

get_hyperparameter(cs, name) ==
  IF HasHyperparameter(cs, name)
  THEN Return(cs.hps[CHOOSE i \in 1..Len(cs.hps) : cs.hps[i].name = name])
  ELSE Raise("UnknownNameError")

add_hyperparameter(cs, hp) ==
  IF HasHyperparameter(cs, hp.name) THEN Raise("DuplicateNameError")
  ELSE Return([cs EXCEPT !.hps = Append(@, hp),
                         !.calls = Append(@, "add_hyperparameter")])

add_condition(cs, cond) ==
  LET leaves == ConditionLeaves(cond)
  IN IF \A i \in 1..Len(leaves) :
          /\ HasHyperparameter(cs, leaves[i].child)
          /\ HasHyperparameter(cs, leaves[i].parent)
          /\ leaves[i].child # leaves[i].parent
     THEN Return([cs EXCEPT !.conds = Append(@, cond),
                            !.calls = Append(@, "add_condition")])
     ELSE Raise("ValidationError")

add_forbidden_clause(cs, clause) ==
  LET dlcs == get_descendant_literal_clauses(clause)
  IN IF \A i \in 1..Len(dlcs) : HasHyperparameter(cs, dlcs[i].hyperparameter)
     THEN Return([cs EXCEPT !.forbs = Append(@, clause),
                            !.calls = Append(@, "add_forbidden_clause")])
     ELSE Raise("ValidationError")

get_hyperparameters(cs) == cs.hps
get_conditions(cs) == cs.conds

(***************************************************************************)
(* pcs_new.py: write                                                       *)
(***************************************************************************)
IsNumerical(hp) == hp.type \in {"UniformFloat", "UniformInteger"}

pcs_build_categorical(param) ==
  param.name \o " categorical {" \o Join(", ", param.choices) \o "} ["
             \o param.default \o "]"

pcs_build_constant(param) ==
  param.name \o " {" \o param.value \o "} [" \o param.value \o "]"

pcs_build_continuous(param) ==
  LET q_prefix == IF ~param.q.none THEN "Q" \o IntStr(param.q.val) \o "_" ELSE ""
      tail == IF param.log THEN "log" ELSE ""
  IN IF param.type = "UniformInteger"
     THEN q_prefix \o param.name \o " integer [" \o IntStr(param.lower) \o ", "
          \o IntStr(param.upper) \o "] [" \o IntStr(param.default) \o "]" \o tail
     ELSE q_prefix \o param.name \o " real [" \o FloatStr(param.lower) \o ", "
          \o FloatStr(param.upper) \o "] [" \o FloatStr(param.default) \o "]" \o tail

\* the text of a condition, or None (no branch returns) for a conjunction
None == [none |-> TRUE]
Some(text) == [none |-> FALSE, text |-> text]

pcs_build_condition(condition) ==
  IF condition.type = "NotEquals"
  THEN Some(condition.child \o " | " \o condition.parent \o " {" \o condition.value \o "}")
  ELSE IF condition.type = "In"
  THEN Some(condition.child \o " | " \o condition.parent \o " {"
            \o Join(", ", condition.values) \o "}")
  ELSE IF condition.type = "Equals"
  THEN Some(condition.child \o " | " \o condition.parent \o " {" \o condition.value \o "}")
  ELSE None

\* "{name=value, name=value, ...}" over the atomics of the clause
build_forbidden(clause) ==
  LET dlcs == get_descendant_literal_clauses(clause)
      pairs == [i \in 1..Len(dlcs) |->
                  dlcs[i].hyperparameter \o "=" \o dlcs[i].value]
  IN "{" \o Join(", ", pairs) \o "}"

\* itertools.product(*lists): the first list varies slowest
RECURSIVE Product(_)
Product(lists) ==
  IF Len(lists) = 0 THEN << <<>> >>
  ELSE LET rest == Product(Tail(lists))
           first == lists[1]
           F[i \in 0..Len(first)] ==
             IF i = 0 THEN <<>>
             ELSE F[i - 1] \o [j \in 1..Len(rest) |-> <<first[i]>> \o rest[j]]
       IN F[Len(first)]

\* a faulty variant of ForbiddenLines: a membership atomic is narrowed to its
\* first value instead of being expanded over all its values
ForbiddenLines_first_value(forbidden_clause) ==
  <<build_forbidden(ForbiddenAndConjunction(
      [i \in 1..Len(get_descendant_literal_clauses(forbidden_clause)) |->
         IF get_descendant_literal_clauses(forbidden_clause)[i].type = "ForbiddenIn"
         THEN ForbiddenEqualsClause(
                get_descendant_literal_clauses(forbidden_clause)[i].hyperparameter,
                get_descendant_literal_clauses(forbidden_clause)[i].values[1])
         ELSE get_descendant_literal_clauses(forbidden_clause)[i]]))>>

\* the clause lines of one stored forbidden clause
ForbiddenLines(forbidden_clause) ==
  LET dlcs == get_descendant_literal_clauses(forbidden_clause)
      ins == SelectSeq(dlcs, LAMBDA d : d.type = "ForbiddenIn")
      in_statements ==
        [i \in 1..Len(ins) |->
           [j \in 1..Len(ins[i].values) |->
              ForbiddenEqualsClause(ins[i].hyperparameter, ins[i].values[j])]]
      other_statements == SelectSeq(dlcs, LAMBDA d : d.type # "ForbiddenIn")
      prod == Product(in_statements)
  IN IF Len(in_statements) > 0
     THEN [k \in 1..Len(prod) |->
             build_forbidden(ForbiddenAndConjunction(prod[k] \o other_statements))]
     ELSE <<build_forbidden(forbidden_clause)>>

\* the printable characters in code point order, for string comparison (the
\* backquote cannot be written in a string and does not occur in the model)
Ascii == " !\"#$%&'()*+,-./0123456789:;<=>?@ABCDEFGHIJKLMNOPQRSTUVWXYZ[\\]^_abcdefghijklmnopqrstuvwxyz{|}~"
Ord(c) == Find(c, Ascii)

\* a < b for strings: decided at the first position where they differ
StrLess(a, b) ==
  LET n == Min(Len(a), Len(b))
      same == \A i \in 1..n : Char(a, i) = Char(b, i)
      k == CHOOSE i \in 1..n :
             /\ Char(a, i) # Char(b, i)
             /\ \A j \in 1..(i - 1) : Char(a, j) = Char(b, j)
  IN IF same THEN Len(a) < Len(b) ELSE Ord(Char(a, k)) < Ord(Char(b, k))

\* list.sort() on strings (stable)
RECURSIVE Insert(_, _)
Insert(x, sorted) ==
  IF Len(sorted) = 0 THEN <<x>>
  ELSE IF StrLess(x, sorted[1]) THEN <<x>> \o sorted
  ELSE <<sorted[1]>> \o Insert(x, Tail(sorted))
RECURSIVE Sort(_)
Sort(seq) ==
  IF Len(seq) = 0 THEN <<>>
  ELSE Insert(seq[Len(seq)], Sort(SubSeq(seq, 1, Len(seq) - 1)))

\* the declaration line of a hyperparameter
pcs_param_line(hp) ==
  IF ~pp_param_name(hp.name, 1).ok THEN Raise("ValueError")
  ELSE IF IsNumerical(hp) THEN Return(pcs_build_continuous(hp))
  ELSE IF hp.type = "Categorical" THEN Return(pcs_build_categorical(hp))
  ELSE IF hp.type = "Constant" THEN Return(pcs_build_constant(hp))
  ELSE Raise("TypeError")

\* the first error among a sequence of results, if any
FirstError(rs) ==
  IF \E i \in 1..Len(rs) : ~rs[i].ok
  THEN Raise(rs[CHOOSE i \in 1..Len(rs) :
                  ~rs[i].ok /\ \A j \in 1..(i - 1) : rs[j].ok].err)
  ELSE Return([i \in 1..Len(rs) |-> rs[i].val])

Concat(seqs) ==
  LET F[i \in 0..Len(seqs)] == IF i = 0 THEN <<>> ELSE F[i - 1] \o seqs[i]
  IN F[Len(seqs)]

\* what StringIO.write puts into the buffer for the value build_condition
\* returned: under Python 2 write(None) returns without writing
NoneText(built) == IF built.none THEN "" ELSE built.text

\* the loop over the conditions: a line break when the buffer is not empty
\* (tell() > 0), then the text of the condition
RECURSIVE write_conditions(_, _)
write_conditions(condition_lines, built) ==
  IF Len(built) = 0 THEN condition_lines
  ELSE write_conditions((IF Len(condition_lines) > 0 THEN condition_lines \o "\n"
                         ELSE condition_lines) \o NoneText(built[1]),
                        Tail(built))

\* the three blocks of the output: declarations, conditions, forbidden lines
pcs_assemble(params, condition_lines, forbidden_lines) ==
  Join("\n", params)
  \o (IF Len(condition_lines) > 0 THEN "\n\n" \o condition_lines ELSE "")
  \o (IF Len(forbidden_lines) > 0
      THEN "\n\n" \o Join("", [i \in 1..Len(forbidden_lines) |->
                                  forbidden_lines[i] \o "\n"])
      ELSE "")

\* the loop over the forbidden clauses of the space
forbidden_lines_of(forbs) ==
  Concat([i \in 1..Len(forbs) |-> ForbiddenLines(forbs[i])])

\* built holds what build_condition returned for each condition.  python is
\* the interpreter's major version: StringIO.write(None) raises TypeError
\* under Python 3
pcs_write_conditions(params, built, forbs, python) ==
  IF python = 3 /\ \E i \in 1..Len(built) : built[i].none
  THEN Raise("TypeError")
  ELSE Return(pcs_assemble(params, write_conditions("", built),
                           Sort(forbidden_lines_of(forbs))))

pcs_write_lines(params, conds, forbs, python) ==
  pcs_write_conditions(params,
                       [i \in 1..Len(conds) |-> pcs_build_condition(conds[i])],
                       forbs, python)

param_lines(hps, line(_)) == FirstError([i \in 1..Len(hps) |-> line(hps[i])])

pcs_write(configuration_space, python) ==
  Try(param_lines(get_hyperparameters(configuration_space), pcs_param_line),
      LAMBDA params :
        pcs_write_lines(params, get_conditions(configuration_space),
                        configuration_space.forbs, python))

(***************************************************************************)
(* pcs_new.py: read                                                        *)
(***************************************************************************)
\* the comment is cut off, quotes are removed, the line is trimmed
CleanLine(line) ==
  LET cut == IF Contains("#", line) THEN SubSeq(line, 1, Find("#", line) - 1)
             ELSE line
  IN Strip(RemoveChar(RemoveChar(cut, "\""), "'"))

\* seq[i] with a 0-based index
Idx(seq, i) == seq[i + 1]

\* the int(...) / float(...) conversions and the constructor call
numerical_param(paramtype, name, lower, upper, log, default) ==
  IF paramtype = "int"
  THEN UniformIntegerHyperparameter(name, lower, upper, NoQ, log, default)
  ELSE UniformFloatHyperparameter(name, lower, upper, NoQ, log, default)

\* float(tok) of the three numbers of a declaration, then rest
ThreeNumbers(lower, upper, default, rest(_, _, _)) ==
  Try(PyFloat(lower), LAMBDA lo :
    Try(PyFloat(upper), LAMBDA up :
      Try(PyFloat(default), LAMBDA df : rest(lo, up, df))))

\* the hyperparameter of a continuous declaration, from its tokens:
\* param_list = toks[:10], logs = toks[10:]
pcs_cont_param(toks) ==
  ThreeNumbers(Idx(toks, 3), Idx(toks, 5), Idx(toks, 8),
    LAMBDA lower, upper, default :
      numerical_param(IF InList("integer", Slice(toks, 0, 10, 1))
                      THEN "int" ELSE "float",
                      Idx(toks, 0), lower, upper,
                      Len(toks) > 10 /\ Contains("log", Idx(toks, 10)),
                      default))

\* the hyperparameter of a categorical declaration, from its tokens
pcs_cat_param(toks) ==
  CategoricalHyperparameter(Idx(toks, 0), Slice(toks, 3, 0 - 4, 2),
                            Idx(toks, Len(toks) - 2))

\* the two try blocks of a declaration line: the categorical attempt runs
\* after the continuous one and overwrites its result; p1 and p2 are the
\* hyperparameters the two blocks construct when their grammar matches
TwoTries(cont_ok, p1, cat_ok, p2) ==
  IF cont_ok /\ ~p1.ok THEN p1
  ELSE IF cat_ok THEN p2
  ELSE IF cont_ok THEN p1
  ELSE Raise("NotImplementedError")

pcs_tries(cont, cat) ==
  TwoTries(cont.ok, pcs_cont_param(cont.toks), cat.ok, pcs_cat_param(cat.toks))

pcs_parse_param(line) == pcs_tries(pcs_pp_cont_param(line), pcs_pp_cat_param(line))

\* conditions.append(c) for a line with "|"
StoreCondition(st, c) ==
  IF c.ok THEN Return([st EXCEPT !.conditions = Append(@, c.toks)])
  ELSE Raise("NotImplementedError")

\* configuration_space.add_hyperparameter(param)
StoreParam(st, param) ==
  Try(param, LAMBDA hp :
    Try(add_hyperparameter(st.cs, hp), LAMBDA cs : Return([st EXCEPT !.cs = cs])))

\* one pass of the first loop of read over a cleaned line; st holds the space,
\* the parsed condition lines and the deferred forbidden lines
read_line(st, line, pp_condition(_), parse_param(_)) ==
  IF Contains("|", line) THEN StoreCondition(st, pp_condition(line))
  ELSE IF ~Contains("}", line) /\ ~Contains("]", line) THEN Return(st)
  ELSE IF StartsWith(line, "{") /\ EndsWith(line, "}")
  THEN Return([st EXCEPT !.forbidden = Append(@, line)])
  ELSE IF Len(Strip(line)) = 0 THEN Return(st)
  ELSE StoreParam(st, parse_param(line))

pcs_read_line(st, raw) ==
  read_line(st, CleanLine(raw), pcs_pp_condition, pcs_parse_param)

\* a loop: step applied to each element in turn, stopping at the first error
RECURSIVE Fold(_, _, _)
Fold(step(_, _), st, items) ==
  IF Len(items) = 0 THEN Return(st)
  ELSE Try(step(st, items[1]), LAMBDA next : Fold(step, next, Tail(items)))

\* the inner loop over the tokens of a forbidden literal; a pending triple is
\* turned into an atomic when the token after it arrives
RECURSIVE ForbiddenTriples(_, _, _, _)
ForbiddenTriples(cs, values, tmp_list, clause_list) ==
  IF Len(values) = 0 THEN Return(clause_list)
  ELSE IF Len(tmp_list) < 3
  THEN ForbiddenTriples(cs, Tail(values), Append(tmp_list, values[1]), clause_list)
  ELSE IF Idx(tmp_list, 1) = "="
  THEN Try(get_hyperparameter(cs, Idx(tmp_list, 0)), LAMBDA hp :
         ForbiddenTriples(cs, Tail(values), <<>>,
           Append(clause_list,
                  ForbiddenEqualsClause(Idx(tmp_list, 0), Idx(tmp_list, 2)))))
  ELSE Raise("NotImplementedError")

\* a faulty variant of forbidden_of: the closing brace is not handed to the
\* inner loop, so the triple pending at the end is never turned into an atomic
forbidden_of_last_pair_lost(cs, param_list) ==
  IF ~param_list.ok THEN Raise("ParseException")
  ELSE Try(ForbiddenTriples(cs, SubSeq(param_list.toks, 2, Len(param_list.toks) - 1),
                            <<>>, <<>>),
           LAMBDA clause_list :
             add_forbidden_clause(cs, ForbiddenAndConjunction(clause_list)))

\* the body of the loop over the deferred forbidden lines, on the parse result
forbidden_of(cs, param_list) ==
  IF ~param_list.ok THEN Raise("ParseException")
  ELSE Try(ForbiddenTriples(cs, Tail(param_list.toks), <<>>, <<>>),
           LAMBDA clause_list :
             add_forbidden_clause(cs, ForbiddenAndConjunction(clause_list)))

\* one pass of the loop over the deferred forbidden lines
read_forbidden(cs, clause) == forbidden_of(cs, pp_forbidden_clause(clause))

\* conditions grouped by child: the children in order of first appearance
RECURSIVE Children(_, _)
Children(conditions, seen) ==
  IF Len(conditions) = 0 THEN seen
  ELSE Children(Tail(conditions),
                IF InList(Idx(conditions[1], 0), seen) THEN seen
                ELSE Append(seen, Idx(conditions[1], 0)))
conditions_per_child(conditions, child_name) ==
  SelectSeq(conditions, LAMBDA c : Idx(c, 0) = child_name)

\* a local variable of read: unbound until first assigned, and keeping its
\* value from one loop pass to the next, also across children
Unbound == [bound |-> FALSE]
Bound(v) == [bound |-> TRUE, val |-> v]

\* the second clause of a condition line, its connective at token index base:
\* connective = condition[base], parent_name2 = condition[base + 1],
\* operation2 = condition[base + 2], then restrictions2 and condition2, and
\* condition_objects.append(condition2).  L holds the locals.
pcs_second_clause(cs, child_name, condition, base, L) ==
  LET n == Len(condition)
      parent_name2 == Idx(condition, base + 1)
      parent2 == get_hyperparameter(cs, parent_name2)
      operation2 == Idx(condition, base + 2)
      condition2 ==
        IF operation2 = "in"
        THEN Bound(InCondition(child_name, parent_name2,
                               Slice(condition, base + 4, 0 - 1, 2)))
        ELSE IF operation2 = "=="
        THEN Bound(EqualsCondition(child_name, parent_name2, Idx(condition, base + 3)))
        ELSE IF operation2 = "!="
        THEN Bound(NotEqualsCondition(child_name, parent_name2, Idx(condition, base + 3)))
        ELSE L.condition2
  IN IF n <= base + 1 THEN Raise("IndexError")
     ELSE IF ~parent2.ok THEN parent2
     ELSE IF n <= base + 2 THEN Raise("IndexError")
     ELSE IF operation2 # "in" /\ n <= base + 3 THEN Raise("IndexError")
     ELSE IF ~condition2.bound THEN Raise("UnboundLocalError")
     ELSE Return([L EXCEPT !.connective = Bound(Idx(condition, base)),
                           !.condition2 = condition2,
                           !.condition_objects = Append(@, condition2.val)])

\* lines 296-324: condition1 for == and !=, its append, and the second clause
\* whenever the line has more than four tokens
pcs_first_clause(cs, child_name, condition, L) ==
  LET operation == Idx(condition, 3)
      parent_name == Idx(condition, 2)
      condition1 ==
        IF operation = "=="
        THEN Bound(EqualsCondition(child_name, parent_name, Idx(condition, 4)))
        ELSE IF operation = "!="
        THEN Bound(NotEqualsCondition(child_name, parent_name, Idx(condition, 4)))
        ELSE L.condition1
      L1 == [L EXCEPT !.condition1 = condition1,
                      !.condition_objects = Append(@, condition1.val)]
  IN IF ~condition1.bound THEN Raise("UnboundLocalError")
     ELSE IF Len(condition) > 4
     THEN pcs_second_clause(cs, child_name, condition, 5, L1)
     ELSE Return(L1)

\* the operation == 'in' branch: condition1 and its append, and for a line of
\* more than seven tokens the second clause at token 7, after which control
\* falls through to the statements of pcs_first_clause
pcs_in_clause(cs, child_name, condition, L) ==
  IF Len(condition) > 7
  THEN Try(pcs_second_clause(cs, child_name, condition, 7, L),
           LAMBDA L2 : pcs_first_clause(cs, child_name, condition, L2))
  ELSE Return(L)

\* one pass of the inner loop: one condition line of the child
pcs_condition_line(cs, child_name, condition, L) ==
  Try(get_hyperparameter(cs, child_name), LAMBDA child :
    Try(get_hyperparameter(cs, Idx(condition, 2)), LAMBDA parent :
      IF Idx(condition, 3) = "in"
      THEN pcs_in_clause(cs, child_name, condition,
             [L EXCEPT !.condition1 =
                         Bound(InCondition(child_name, parent.name,
                                           Slice(condition, 5, 0 - 1, 2))),
                       !.condition_objects =
                         Append(@, InCondition(child_name, parent.name,
                                               Slice(condition, 5, 0 - 1, 2)))])
      ELSE pcs_first_clause(cs, child_name, condition, L)))

\* the statements after the inner loop: the condition added for the child
pcs_child_condition(cs, L) ==
  IF Len(L.condition_objects) > 1
  THEN IF ~L.connective.bound THEN Raise("UnboundLocalError")
       ELSE IF L.connective.val = "&&"
       THEN add_condition(cs, AndConjunction(L.condition_objects))
       ELSE add_condition(cs, OrConjunction(L.condition_objects))
  ELSE add_condition(cs, L.condition_objects[1])

\* one pass of the outer loop: all lines of one child, then add_condition
pcs_read_child(st, child_name) ==
  Try(Fold(LAMBDA l, c : pcs_condition_line(st.cs, child_name, c, l),
           [st.locals EXCEPT !.condition_objects = <<>>],
           conditions_per_child(st.conditions, child_name)),
      LAMBDA L :
        Try(pcs_child_condition(st.cs, L),
            LAMBDA cs : Return([st EXCEPT !.cs = cs, !.locals = L])))

NoLocals ==
  [condition_objects |-> <<>>, connective |-> Unbound, condition1 |-> Unbound,
   condition2 |-> Unbound]

\* the three loops of read: the lines, then the forbidden literals, then the
\* conditions child by child
read_loops(pcs_string, locals, line(_, _), child(_, _)) ==
  Try(Fold(line, [cs |-> ConfigurationSpace, conditions |-> <<>>,
                  forbidden |-> <<>>, locals |-> locals], pcs_string),
      LAMBDA st :
        Try(Fold(read_forbidden, st.cs, st.forbidden),
            LAMBDA cs :
              Try(Fold(child, [st EXCEPT !.cs = cs], Children(st.conditions, <<>>)),
                  LAMBDA done : Return(done.cs))))

\* a faulty variant of pcs_read: the conditions are attached before the
\* forbidden clauses
pcs_read_conditions_first(pcs_string) ==
  Try(Fold(pcs_read_line, [cs |-> ConfigurationSpace, conditions |-> <<>>,
                           forbidden |-> <<>>, locals |-> NoLocals], pcs_string),
      LAMBDA st :
        Try(Fold(pcs_read_child, st, Children(st.conditions, <<>>)),
            LAMBDA done : Fold(read_forbidden, done.cs, st.forbidden)))

\* read(pcs_string)
pcs_read(pcs_string) == read_loops(pcs_string, NoLocals, pcs_read_line, pcs_read_child)

(***************************************************************************)
(* irace.py: write                                                         *)
(***************************************************************************)
irace_build_categorical(param) ==
  param.name \o " '--" \o param.name \o " ' c (" \o Join(",", param.choices) \o ")"

irace_build_constant(param) ==
  param.name \o " '--" \o param.name \o " ' c (" \o param.value \o ")"

irace_build_continuous(param) ==
  IF param.type = "UniformInteger"
  THEN param.name \o " '--" \o param.name \o " ' i (" \o IntStr(param.lower)
       \o ", " \o IntStr(param.upper) \o ")"
  ELSE param.name \o " '--" \o param.name \o " ' r (" \o FloatStr(param.lower)
       \o ", " \o FloatStr(param.upper) \o ") "

\* a faulty variant of irace_build_condition: the check for a not-equals
\* condition is missing and the condition is rendered like an equality
irace_build_condition_lenient(cs, condition) ==
  IF condition.type = "Or" THEN Raise("NotImplementedError")
  ELSE IF condition.type = "And" THEN Raise("AttributeError")
  ELSE IF condition.type = "In"
  THEN Return(condition.child \o " | " \o condition.parent \o " %in% c("
              \o Join(", ", condition.values) \o ") ")
  ELSE Return(condition.child \o " | " \o condition.parent \o " %in% c("
              \o condition.value \o ") ")

\* a conjunction has components and no parent: reading condition.parent of an
\* AndConjunction fails before the branch that rejects it is reached
irace_build_condition(cs, condition) ==
  LET parent == get_hyperparameter(cs, condition.parent).val
      pType == IF parent.type = "UniformFloat" THEN "r"
               ELSE IF parent.type = "Categorical" THEN "c" ELSE "i"
  IN IF condition.type = "Or" THEN Raise("NotImplementedError")
     ELSE IF condition.type = "NotEquals" THEN Raise("NotImplementedError")
     ELSE IF condition.type = "And" THEN Raise("AttributeError")
     ELSE IF condition.type = "In"
     THEN Return(condition.child \o " | " \o condition.parent \o " %in% " \o pType
                 \o "(" \o Join(", ", condition.values) \o ") ")
     ELSE Return(condition.child \o " | " \o condition.parent \o " %in% " \o pType
                 \o "(" \o condition.value \o ") ")

irace_param_line(hp) ==
  IF ~pp_param_name(hp.name, 1).ok THEN Raise("ValueError")
  ELSE IF IsNumerical(hp) THEN Return(irace_build_continuous(hp))
  ELSE IF hp.type = "Categorical" THEN Return(irace_build_categorical(hp))
  ELSE IF hp.type = "Constant" THEN Return(irace_build_constant(hp))
  ELSE Raise("TypeError")

\* the position of the first element of seq equal to x (list.index)
IndexOf(seq, x) ==
  CHOOSE i \in 1..Len(seq) : seq[i] = x /\ \A j \in 1..(i - 1) : seq[j] # x

\* t = filter(...)[0]; index = splitted_params.index(t); the append
splice_into(splitted_params, hits, text) ==
  IF Len(hits) = 0 THEN Raise("IndexError")
  ELSE Return([splitted_params EXCEPT ![IndexOf(splitted_params, hits[1])] =
                 @ \o text])

\* the declaration lines that contain key
lines_containing(splitted_params, key) ==
  SelectSeq(splitted_params, LAMBDA x : Contains(key, x))

\* one pass of the loop over condition_lines: the condition text is appended
\* to the first declaration line that contains the text before the first
\* blank of the condition line
irace_splice(splitted_params, line) ==
  splice_into(splitted_params,
              lines_containing(splitted_params, Split(line, " ")[1]),
              Join("  ", Tail(Split(line, " "))))

\* the lines a StringIO yields: each keeps its line break, the last has none
FileLines(text) ==
  [i \in 1..Len(Split(text, "\n")) |->
     IF i < Len(Split(text, "\n")) THEN Split(text, "\n")[i] \o "\n"
     ELSE Split(text, "\n")[i]]

\* the loop that ends every line with a line break (j[-1] of an empty line
\* is an IndexError), and the text returned
irace_finish(splitted_params) ==
  IF \E i \in 1..Len(splitted_params) : Len(splitted_params[i]) = 0
  THEN Raise("IndexError")
  ELSE Return(Join("", [i \in 1..Len(splitted_params) |->
                          IF EndsWith(splitted_params[i], "\n")
                          THEN splitted_params[i]
                          ELSE splitted_params[i] \o "\n"]))

\* the splice loop, entered when condition_lines is not empty.  python is the
\* interpreter's major version: filter(...)[0] is a list index under Python 2
\* and a TypeError under Python 3
irace_add_conditions(splitted_params, condition_lines, python) ==
  IF Len(condition_lines) = 0 THEN irace_finish(splitted_params)
  ELSE IF python = 3 THEN Raise("TypeError")
  ELSE Try(Fold(irace_splice, splitted_params, FileLines(condition_lines)),
           LAMBDA spliced : irace_finish(spliced))

\* the forbidden lines write collects; the block that would write them to the
\* text is commented out
irace_forbidden_lines(configuration_space) ==
  forbidden_lines_of(configuration_space.forbs)

irace_write(configuration_space, python) ==
  Try(param_lines(get_hyperparameters(configuration_space), irace_param_line),
      LAMBDA params :
        Try(FirstError([i \in 1..Len(get_conditions(configuration_space)) |->
                          irace_build_condition(configuration_space,
                                                get_conditions(configuration_space)[i])]),
            LAMBDA built :
              irace_add_conditions(Split(Join("\n", params), "\n"),
                                   Join("\n", built), python)))

(***************************************************************************)
(* irace.py: read                                                          *)
(***************************************************************************)
\* param_list = toks[:9], il = toks[9:]
irace_cont_param(toks) ==
  ThreeNumbers(Idx(toks, 2), Idx(toks, 4), Idx(toks, 7),
    LAMBDA lower, upper, default :
      numerical_param(IF Len(toks) > 9 /\ Contains("i", Idx(toks, 9))
                      THEN "int" ELSE "float",
                      Idx(toks, 0), lower, upper,
                      Len(toks) > 9 /\ Contains("l", Idx(toks, 9)),
                      default))

irace_cat_param(toks) ==
  CategoricalHyperparameter(Idx(toks, 0), Slice(toks, 2, 0 - 4, 2),
                            Idx(toks, Len(toks) - 2))

irace_tries(cont, cat) ==
  TwoTries(cont.ok, irace_cont_param(cont.toks), cat.ok, irace_cat_param(cat.toks))

irace_parse_param(line) ==
  irace_tries(irace_pp_cont_param(line), irace_pp_cat_param(line))

irace_read_line(st, raw) ==
  read_line(st, CleanLine(raw), irace_pp_condition, irace_parse_param)

\* the condition object of the restrictions of one condition line
irace_condition(child_name, parent_name, restrictions) ==
  IF Len(restrictions) = 1
  THEN EqualsCondition(child_name, parent_name, Idx(restrictions, 0))
  ELSE InCondition(child_name, parent_name, restrictions)

\* one pass of the inner loop: the condition object of one condition line
irace_condition_line(cs, child_name, condition) ==
  Try(get_hyperparameter(cs, child_name), LAMBDA child :
    Try(get_hyperparameter(cs, Idx(condition, 2)), LAMBDA parent :
      Return(irace_condition(child_name, parent.name,
                             Slice(condition, 5, 0 - 1, 2)))))

\* a faulty variant of irace_child_condition: every condition object of the
\* child is added as a top-level condition of its own
irace_child_condition_separate(cs, condition_objects) ==
  Fold(add_condition, cs, condition_objects)

\* the statements after the inner loop: the condition added for the child
irace_child_condition(cs, condition_objects) ==
  IF Len(condition_objects) > 1
  THEN add_condition(cs, AndConjunction(condition_objects))
  ELSE add_condition(cs, condition_objects[1])

\* one pass of the outer loop: all lines of one child, then add_condition
irace_read_child(st, child_name) ==
  Try(Fold(LAMBDA objs, c :
             Try(irace_condition_line(st.cs, child_name, c),
                 LAMBDA o : Return(Append(objs, o))),
           <<>>, conditions_per_child(st.conditions, child_name)),
      LAMBDA condition_objects :
        Try(irace_child_condition(st.cs, condition_objects),
            LAMBDA cs : Return([st EXCEPT !.cs = cs])))

\* read(pcs_string)
irace_read(pcs_string) ==
  read_loops(pcs_string, NoLocals, irace_read_line, irace_read_child)

(***************************************************************************)
(* Bounds and the inputs drawn from them                                   *)
(***************************************************************************)
MaxHps == 2
MaxValues == 2
MaxConds == 2
MaxPcsLines == 2
MaxIraceLines == 3

Num(tok) == PyFloat(tok).val

hp_p == CategoricalHyperparameter("p", <<"a", "b">>, "a").val
hp_q == UniformIntegerHyperparameter("q", Num("1"), Num("3"), NoQ, FALSE, Num("2")).val
hp_c == UniformFloatHyperparameter("c", Num("0.0"), Num("1.0"), NoQ, TRUE, Num("0.5")).val
hp_d == Constant("d", "v")
hp_z == UniformFloatHyperparameter("z", Num("0.5"), Num("10"), Quantization(2), FALSE,
                                   Num("2.5")).val
\* names with a character outside the permitted set, later and first
hp_late == UniformIntegerHyperparameter("x{", Num("1"), Num("3"), NoQ, TRUE, Num("1")).val
hp_first == CategoricalHyperparameter("{x", <<"a">>, "a").val

DeclPool == {hp_p, hp_q, hp_c, hp_d, hp_z, hp_late, hp_first}
Base == <<hp_p, hp_q, hp_c, hp_d>>

\* the sequences without repetition over S of length at most n
RECURSIVE InjSeqs(_, _)
InjSeqs(S, n) ==
  IF n = 0 THEN {<<>>}
  ELSE LET shorter == InjSeqs(S, n - 1)
       IN shorter \cup
          UNION {{Append(q, x) : x \in S \ {q[i] : i \in 1..Len(q)}} : q \in shorter}

\* the value lists of a membership test: prefixes of the values of a parent
ValuePool(parent) == IF parent = "p" THEN <<"a", "b", "c">> ELSE <<"1", "2", "3">>
ValLists(parent) == {SubSeq(ValuePool(parent), 1, k) : k \in 1..MaxValues}

\* the leaves a child can own on parent p, and its conditions
LeavesOnP(child) ==
  {EqualsCondition(child, "p", "a"), NotEqualsCondition(child, "p", "a")}
  \cup {InCondition(child, "p", vs) : vs \in ValLists("p")}
CondPool(child) ==
  IF child = "q" THEN LeavesOnP(child)
  ELSE LeavesOnP(child) \cup {EqualsCondition(child, "q", "1")}
       \cup {AndConjunction(<<x, EqualsCondition(child, "q", "1")>>) : x \in LeavesOnP(child)}
       \cup {OrConjunction(<<x, EqualsCondition(child, "q", "1")>>) : x \in LeavesOnP(child)}

ChildOrder == <<"c", "d", "q">>
\* at most MaxConds conditions, one per child, in the order of ChildOrder
RECURSIVE CondSeqs(_, _)
CondSeqs(i, left) ==
  IF i > Len(ChildOrder) THEN {<<>>}
  ELSE CondSeqs(i + 1, left)
       \cup (IF left = 0 THEN {}
             ELSE {<<c>> \o rest : c \in CondPool(ChildOrder[i]),
                                   rest \in CondSeqs(i + 1, left - 1)})

ForbLeaves(hp) ==
  {ForbiddenEqualsClause(hp, ValuePool(hp)[1])}
  \cup {ForbiddenInClause(hp, vs) : vs \in ValLists(hp)}
ForbPool ==
  {ForbiddenAndConjunction(<<x>>) : x \in ForbLeaves("p") \cup ForbLeaves("q")}
  \cup {ForbiddenAndConjunction(<<x, y>>) : x \in ForbLeaves("p"), y \in ForbLeaves("q")}
  \cup {ForbiddenAndConjunction(<<y, x>>) : x \in ForbLeaves("p"), y \in ForbLeaves("q")}
ForbTail ==
  {<<>>, <<ForbiddenAndConjunction(<<ForbiddenEqualsClause("p", "a"),
                                     ForbiddenEqualsClause("q", "1")>>)>>,
   <<ForbiddenAndConjunction(<<ForbiddenEqualsClause("q", "2"),
                               ForbiddenInClause("p", <<"b", "a">>)>>)>>}

MakeSpace(hps, conds, forbs) ==
  [hps |-> hps, conds |-> conds, forbs |-> forbs, calls |-> <<>>]

\* the configuration spaces handed to write
Spaces ==
  {MakeSpace(hps, <<>>, <<>>) : hps \in InjSeqs(DeclPool, MaxHps)}
  \cup {MakeSpace(Base, conds, forbs) :
          conds \in CondSeqs(1, MaxConds) \ {<<>>},
          forbs \in {<<>>, <<ForbiddenAndConjunction(<<ForbiddenEqualsClause("p", "a")>>)>>}}
  \cup {MakeSpace(Base, <<>>, <<f>> \o tail) : f \in ForbPool, tail \in ForbTail}

\* the sequences over S of length at most n
SeqsUpTo(S, n) == UNION {[1..k -> S] : k \in 0..n}

Braced(vs) == "{" \o Join(", ", vs) \o "}"

\* input files of the explicit dialect: four declarations, then lines of the pool
PcsDecls ==
  <<"p categorical {a, b} [a]", "q integer [1, 3] [2]",
    "c real [0.0, 1.0] [0.5]log", "d real [0.0, 1.0] [0.5]">>
PcsFacts == {"p == a", "p != a"} \cup {"p in " \o Braced(vs) : vs \in ValLists("p")}
PcsLinePool ==
  {"c | " \o f \o t : f \in PcsFacts, t \in {"", " && q == 1", " || q == 1"}}
  \cup {"d | p in {a}", "d | p == a || q != 1", "{p=a, q=1}", "# d | p == a"}
\* a line of c that carries a connective, then two membership lines of d
PcsGroupTails ==
  {<<"c | p == a" \o t, "d | p in {a}", "d | q in {1}">> :
     t \in {" && q == 1", " || q == 1"}}
\* lines that are no well-formed declaration: without a bracket, with text
\* after the default, and named like a type keyword
PcsOddLines ==
  {"z real", "z real [0.0, 1.0] [0.5] extra", "z categorical {a, b} [a] extra",
   "integer real [1, 3] [2]", "real integer [1, 3] [2]"}
OddTails(lines, after) == {<<l>> : l \in lines} \cup {<<l, after>> : l \in lines}
\* forbidden literals of one, two and three pairs, and of an undeclared name
ForbiddenTails ==
  {<<"{p=a}">>, <<"{q=1, p=b}", "{p=a}">>, <<"{p=a, q=1, c=0.5}">>,
   <<"{e=1}">>, <<"{p=a, e=1}">>}
PcsInputs ==
  {PcsDecls \o tail :
     tail \in SeqsUpTo(PcsLinePool, MaxPcsLines) \cup PcsGroupTails
               \cup OddTails(PcsOddLines, "d | p in {a}") \cup ForbiddenTails}

\* input files of the compact dialect
IraceDecls ==
  <<"p {a, b} [a]", "q [1, 3] [2]i", "c [0.0, 1.0] [0.5]l", "d [0.0, 1.0] [0.5]">>
IraceLinePool ==
  {"c | p in " \o Braced(vs) : vs \in ValLists("p")}
  \cup {"c | q in {1}", "d | p in {a}", "d | q in {1, 2}", "{p=a, q=1}",
        "# c | p in {b}", "c | p == a"}
IraceOddLines ==
  {"z '--z ' r (0.5, 10.0)", "z [0.0, 1.0] [0.5] extra", "z {a, b} [a] extra"}
IraceInputs ==
  {IraceDecls \o tail :
     tail \in SeqsUpTo(IraceLinePool, MaxIraceLines)
               \cup OddTails(IraceOddLines, "d | p in {a}") \cup ForbiddenTails}

(***************************************************************************)
(* The state machine: a configuration space is written and the text read   *)
(* back, or an input file is read.                                         *)
(***************************************************************************)
VARIABLES
  python,      \* the interpreter's major version
  space,       \* the configuration space handed to write
  dialect,     \* "pcs_new" or "irace": the dialect of pcs_string
  pcs_string,  \* the lines handed to read
  written,     \* what write returned or raised
  parsed,      \* what read returned or raised
  rewritten,   \* what write returned or raised on the space that read returned
  pc           \* "space", "file", "written", "done", "rewritten"

vars == <<python, space, dialect, pcs_string, written, parsed, rewritten, pc>>

NotCalled == Raise("NotCalled")

Init ==
  /\ python \in {2, 3}
  /\ written = NotCalled
  /\ parsed = NotCalled
  /\ rewritten = NotCalled
  /\ \/ /\ space \in Spaces
        /\ dialect = "none"
        /\ pcs_string = <<>>
        /\ pc = "space"
     \/ /\ space = ConfigurationSpace
        /\ \/ dialect = "pcs_new" /\ pcs_string \in PcsInputs
           \/ dialect = "irace" /\ pcs_string \in IraceInputs
        /\ pc = "file"

\* text = pcs_new.write(space); on success its lines are kept for read
PcsWrite ==
  /\ pc = "space"
  /\ written' = pcs_write(space, python)
  /\ dialect' = "pcs_new"
  /\ pcs_string' = IF written'.ok THEN Split(written'.val, "\n") ELSE <<>>
  /\ pc' = IF written'.ok THEN "written" ELSE "done"
  /\ UNCHANGED <<python, space, parsed, rewritten>>

\* text = irace.write(space)
IraceWrite ==
  /\ pc = "space"
  /\ written' = irace_write(space, python)
  /\ dialect' = "irace"
  /\ pcs_string' = IF written'.ok THEN Split(written'.val, "\n") ELSE <<>>
  /\ pc' = IF written'.ok THEN "written" ELSE "done"
  /\ UNCHANGED <<python, space, parsed, rewritten>>

\* pcs_new.read(pcs_string)
PcsRead ==
  /\ pc \in {"file", "written"}
  /\ dialect = "pcs_new"
  /\ parsed' = pcs_read(pcs_string)
  /\ pc' = "done"
  /\ UNCHANGED <<python, space, dialect, pcs_string, written, rewritten>>

\* irace.read(pcs_string)
IraceRead ==
  /\ pc \in {"file", "written"}
  /\ dialect = "irace"
  /\ parsed' = irace_read(pcs_string)
  /\ pc' = "done"
  /\ UNCHANGED <<python, space, dialect, pcs_string, written, rewritten>>

\* irace.write(irace.read(pcs_string)): the space read from a file is written
IraceWriteParsed ==
  /\ pc = "done"
  /\ dialect = "irace"
  /\ written = NotCalled
  /\ parsed.ok
  /\ rewritten' = irace_write(parsed.val, python)
  /\ pc' = "rewritten"
  /\ UNCHANGED <<python, space, dialect, pcs_string, written, parsed>>

Next == PcsWrite \/ IraceWrite \/ PcsRead \/ IraceRead \/ IraceWriteParsed

Spec == Init /\ [][Next]_vars

(***************************************************************************)
(* Properties.  A state records one run: the space handed to write and what *)
(* write returned, the lines handed to read and what read returned.         *)
(***************************************************************************)
\* write of the dialect has been called on space
Wrote(d) == dialect = d /\ written # NotCalled
\* read of the dialect has returned or raised, on an input file
ReadFile(d) == pc = "done" /\ dialect = d /\ written = NotCalled

LegalName(name) == \A i \in 1..Len(name) : Char(name, i) \in NameChars
LegalNames(cs) == \A i \in 1..Len(cs.hps) : LegalName(cs.hps[i].name)

\* name, type, bounds or choices, default
SameHyperparameter(x, y) ==
  /\ x.name = y.name
  /\ x.type = y.type
  /\ IF x.type = "Constant" THEN x.value = y.value
     ELSE IF x.type = "Categorical"
     THEN x.choices = y.choices /\ x.default = y.default
     ELSE x.lower = y.lower /\ x.upper = y.upper /\ x.default = y.default
SameHyperparameters(a, b) ==
  /\ Len(a.hps) = Len(b.hps)
  /\ \A i \in 1..Len(a.hps) : SameHyperparameter(a.hps[i], b.hps[i])

SameConditions(a, b) ==
  /\ \A i \in 1..Len(a.conds) : \E j \in 1..Len(b.conds) : a.conds[i] = b.conds[j]
  /\ \A j \in 1..Len(b.conds) : \E i \in 1..Len(a.conds) : a.conds[i] = b.conds[j]

\* the values that occur in the model
AllValues == {"a", "b", "c", "1", "2", "3", "v"}

\* the ways to pick one value for each atomic of a forbidden clause
Choices(clause) ==
  LET d == get_descendant_literal_clauses(clause)
  IN {f \in [1..Len(d) -> AllValues] :
        \A i \in 1..Len(d) :
          IF d[i].type = "ForbiddenIn" THEN InList(f[i], d[i].values)
          ELSE f[i] = d[i].value}
\* the forbidden combination of one such pick: a set of <<name, value>>
Combination(clause, f) ==
  LET d == get_descendant_literal_clauses(clause)
  IN {<<d[i].hyperparameter, f[i]>> : i \in 1..Len(d)}
Combinations(cs) ==
  UNION {{Combination(cs.forbs[i], f) : f \in Choices(cs.forbs[i])} :
           i \in 1..Len(cs.forbs)}
SameForbidden(a, b) == Combinations(a) = Combinations(b)

RoundTrip ==
  /\ written.ok
  /\ pc = "done" =>
       /\ parsed.ok
       /\ SameHyperparameters(space, parsed.val)
       /\ SameConditions(space, parsed.val)
       /\ SameForbidden(space, parsed.val)

\* C1: explicit dialect round trip: for every space with legal names,
\* write succeeds, read of the written text succeeds, and the space read has
\* the same hyperparameters in the same order, the same top-level conditions
\* and the same forbidden combinations.
C1_PcsRoundTrip == (Wrote("pcs_new") /\ LegalNames(space)) => RoundTrip

\* the conditions the compact dialect can express
OnlyEqualsAndIn(cs) ==
  \A i \in 1..Len(cs.conds) : cs.conds[i].type \in {"Equals", "In"}

\* C2: compact dialect round trip: for every space with at least one
\* hyperparameter, legal names and only Equals and In conditions, write
\* succeeds, read of the written text succeeds and returns the same
\* hyperparameters, conditions and forbidden combinations.
C2_IraceRoundTrip ==
  (Wrote("irace") /\ Len(space.hps) > 0 /\ LegalNames(space) /\ OnlyEqualsAndIn(space))
    => RoundTrip

\* the clause lines of the lines written: those that open with a brace
ClauseLines == SelectSeq(pcs_string, LAMBDA l : StartsWith(l, "{"))

\* |V1| * ... * |Vk| over the membership atomics of a clause
RECURSIVE ProductOfSizes(_)
ProductOfSizes(atoms) ==
  IF Len(atoms) = 0 THEN 1
  ELSE (IF atoms[1].type = "ForbiddenIn" THEN Len(atoms[1].values) ELSE 1)
       * ProductOfSizes(Tail(atoms))
ExpansionCount(clause) == ProductOfSizes(get_descendant_literal_clauses(clause))
RECURSIVE TotalExpansionCount(_)
TotalExpansionCount(forbs) ==
  IF Len(forbs) = 0 THEN 0
  ELSE ExpansionCount(forbs[1]) + TotalExpansionCount(Tail(forbs))

\* a line that is "{name=value, ..., name=value}" and nothing else
PlainClauseLine(line) ==
  pp_forbidden_clause(line).ok /\ pp_forbidden_clause(line).pos = Len(line) + 1
\* its name=value pairs: the tokens are "{", n, "=", v, ",", n, "=", v, ..., "}"
PairCount(line) == (Len(pp_forbidden_clause(line).toks) - 1) \div 4
PairsOfLine(line) ==
  {<<pp_forbidden_clause(line).toks[4 * k - 2], pp_forbidden_clause(line).toks[4 * k]>> :
     k \in 1..PairCount(line)}
\* the line holds one pair per atomic of the clause, with the values of pick f
Renders(line, clause, f) ==
  /\ PlainClauseLine(line)
  /\ PairCount(line) = Len(get_descendant_literal_clauses(clause))
  /\ PairsOfLine(line) = Combination(clause, f)

\* C3: forbidden expansion on write in the explicit dialect: the text holds
\* exactly |V1|*...*|Vk| clause lines for each stored clause (one when it has
\* no membership atomic), one for each element of the product, each with one
\* name=value pair per atomic; no clause line uses the membership form.
C3_ForbiddenExpansion ==
  (Wrote("pcs_new") /\ written.ok) =>
    /\ Len(ClauseLines) = TotalExpansionCount(space.forbs)
    /\ \A i \in 1..Len(space.forbs) : \A f \in Choices(space.forbs[i]) :
         \E k \in 1..Len(ClauseLines) : Renders(ClauseLines[k], space.forbs[i], f)
    /\ \A k \in 1..Len(ClauseLines) : PlainClauseLine(ClauseLines[k])

\* a clause with a membership atomic of two values and a plain atomic has
\* been written as two clause lines
C3_Witness ==
  /\ Wrote("pcs_new") /\ written.ok
  /\ space.forbs =
       <<ForbiddenAndConjunction(<<ForbiddenInClause("p", <<"a", "b">>),
                                   ForbiddenEqualsClause("q", "1")>>)>>
  /\ ClauseLines = <<"{p=a, q=1}", "{p=b, q=1}">>

\* C4: the text written in the compact dialect holds the clause lines of
\* every forbidden clause of the space.
C4_IraceForbiddenWritten ==
  (Wrote("irace") /\ written.ok) =>
    \A i \in 1..Len(space.forbs) : \A f \in Choices(space.forbs[i]) :
      \E k \in 1..Len(pcs_string) : Renders(pcs_string[k], space.forbs[i], f)

HasUnsupportedCondition(cs) ==
  \E i \in 1..Len(cs.conds) : cs.conds[i].type \in {"Or", "NotEquals"}

\* C5: when a top-level condition of the space is an OR-conjunction or a
\* not-equals condition, write of the compact dialect raises and returns no
\* text, whatever else the space holds.
C5_UnsupportedRejected ==
  (Wrote("irace") /\ HasUnsupportedCondition(space)) =>
    /\ ~written.ok
    /\ written.err \in {"NotImplementedError", "AttributeError"}
    /\ pcs_string = <<>>
    /\ pc = "done"

\* write has raised on a space whose second condition is an OR-conjunction
\* and whose first condition the dialect can express, with a forbidden clause
C5_Witness ==
  /\ Wrote("irace") /\ ~written.ok
  /\ Len(space.conds) = 2
  /\ space.conds[1].type = "Equals"
  /\ space.conds[2].type = "Or"
  /\ Len(space.forbs) > 0
  /\ written.err = "NotImplementedError"

\* C6: in both dialects write raises the illegal-name error when the name of
\* a hyperparameter holds a character outside the permitted set, at any
\* position, and returns no text.
C6_IllegalNameRejected ==
  (written # NotCalled /\ ~LegalNames(space)) =>
    ~written.ok /\ written.err = "ValueError"

\* the condition lines of the input and what they say, read off the text:
\* "child | parent in {v1, ..., vn}"
IsConditionLine(line) == Contains("|", CleanLine(line))
ConditionLines == SelectSeq(pcs_string, IsConditionLine)
TextChild(line) == Strip(Before(CleanLine(line), Find("|", CleanLine(line))))
TextFact(line) == Strip(After(CleanLine(line), Find("|", CleanLine(line))))
TextParent(line) == Strip(Before(TextFact(line), Find(" in ", TextFact(line))))
TextValues(line) ==
  LET inner == Before(After(TextFact(line), Find("{", TextFact(line))),
                      Find("}", After(TextFact(line), Find("{", TextFact(line)))))
      parts == Split(inner, ",")
  IN [i \in 1..Len(parts) |-> Strip(parts[i])]
TextLeaf(line) ==
  IF Len(TextValues(line)) = 1
  THEN EqualsCondition(TextChild(line), TextParent(line), TextValues(line)[1])
  ELSE InCondition(TextChild(line), TextParent(line), TextValues(line))
\* the leaves of the condition lines of a child, in line order
TextLeaves(child) ==
  LET own == SelectSeq(ConditionLines, LAMBDA l : TextChild(l) = child)
  IN [i \in 1..Len(own) |-> TextLeaf(own[i])]
TextChildren == {TextChild(ConditionLines[i]) : i \in 1..Len(ConditionLines)}
\* the top-level conditions of a space that belong to a child
ConditionsOf(cs, child) ==
  SelectSeq(cs.conds, LAMBDA c : ConditionLeaves(c)[1].child = child)

\* C7: when read of the compact dialect succeeds, every child named in a
\* condition line has exactly one top-level condition: the leaf of its line
\* when it has one line (Equals for one listed value, In for several), and one
\* AND-conjunction of the leaves of its lines, in line order, when it has more.
C7_IraceGrouping ==
  (pc = "done" /\ dialect = "irace" /\ parsed.ok) =>
    /\ \A child \in TextChildren :
         /\ Len(ConditionsOf(parsed.val, child)) = 1
         /\ ConditionsOf(parsed.val, child)[1] =
              IF Len(TextLeaves(child)) = 1 THEN TextLeaves(child)[1]
              ELSE AndConjunction(TextLeaves(child))
    /\ Len(parsed.val.conds) = Cardinality(TextChildren)

\* a file with two condition lines for c and one for d has been read
C7_Witness ==
  /\ ReadFile("irace") /\ parsed.ok
  /\ SubSeq(pcs_string, Len(IraceDecls) + 1, Len(pcs_string)) =
       <<"c | p in {a, b}", "d | p in {a}", "c | q in {1}">>
  /\ parsed.val.conds =
       <<AndConjunction(<<InCondition("c", "p", <<"a", "b">>),
                          EqualsCondition("c", "q", "1")>>),
         EqualsCondition("d", "p", "a")>>

\* the input file is the declarations followed by this one line
OnlyLine(line) == ReadFile("pcs_new") /\ pcs_string = PcsDecls \o <<line>>

\* C8: read of the explicit dialect of a file whose only condition line is
\* "c | p == a" (or "c | p != a") succeeds and attaches exactly the condition
\* Equals (or NotEquals) of c on p with value a, unwrapped.
C8_SingleComparison ==
  /\ OnlyLine("c | p == a") =>
       parsed.ok /\ parsed.val.conds = <<EqualsCondition("c", "p", "a")>>
  /\ OnlyLine("c | p != a") =>
       parsed.ok /\ parsed.val.conds = <<NotEqualsCondition("c", "p", "a")>>

\* C9: read of the explicit dialect of a file whose only condition line is
\* "c | p in {v1, ..., vn}" attaches an In condition of c on p whose values
\* are exactly v1, ..., vn.
C9_Membership ==
  \A vs \in ValLists("p") :
    OnlyLine("c | p in " \o Braced(vs)) =>
      /\ parsed.ok
      /\ Len(parsed.val.conds) = 1
      /\ parsed.val.conds[1].type = "In"
      /\ parsed.val.conds[1].child = "c"
      /\ parsed.val.conds[1].parent = "p"
      /\ {parsed.val.conds[1].values[i] : i \in 1..Len(parsed.val.conds[1].values)}
           = {vs[i] : i \in 1..Len(vs)}

\* the first facts of a condition line and the leaves they stand for
FirstFacts ==
  {<<"p == a", EqualsCondition("c", "p", "a")>>,
   <<"p != a", NotEqualsCondition("c", "p", "a")>>}
  \cup {<<"p in " \o Braced(vs), InCondition("c", "p", vs)>> : vs \in ValLists("p")}

\* C10: read of the explicit dialect of a file whose only condition line
\* joins a first fact (equality, inequality or membership) to the second fact
\* "q == 1" attaches one composite of exactly these two leaves in this order:
\* an AND-conjunction for "&&" and an OR-conjunction for "||".
C10_TwoFacts ==
  \A ff \in FirstFacts :
    /\ OnlyLine("c | " \o ff[1] \o " && q == 1") =>
         /\ parsed.ok
         /\ parsed.val.conds =
              <<AndConjunction(<<ff[2], EqualsCondition("c", "q", "1")>>)>>
    /\ OnlyLine("c | " \o ff[1] \o " || q == 1") =>
         /\ parsed.ok
         /\ parsed.val.conds =
              <<OrConjunction(<<ff[2], EqualsCondition("c", "q", "1")>>)>>

\* the connective that pp_condition parses from a condition line, "" if none
ParsedConnective(line) ==
  LET toks == pcs_pp_condition(CleanLine(line)).toks
  IN IF Len(toks) >= 9 THEN toks[Len(toks) - 3] ELSE ""
\* the connectives parsed from the condition lines of a child, in line order
OwnConnectives(child) ==
  LET own == SelectSeq(ConditionLines, LAMBDA l : TextChild(l) = child)
  IN SelectSeq([i \in 1..Len(own) |-> ParsedConnective(own[i])],
               LAMBDA k : k # "")
KindOf(connective) == IF connective = "&&" THEN "And" ELSE "Or"

\* C11: when read of the explicit dialect succeeds, every child named in a
\* condition line has one top-level condition, and when that condition is a
\* composite its kind (AND or OR) is the connective parsed from the last line
\* of the child's own lines that carries one; lines of other children do not
\* decide it.
C11_OwnConnective ==
  (ReadFile("pcs_new") /\ parsed.ok) =>
    \A child \in TextChildren :
      /\ Len(ConditionsOf(parsed.val, child)) = 1
      /\ ConditionsOf(parsed.val, child)[1].type \in {"And", "Or"} =>
           /\ Len(OwnConnectives(child)) > 0
           /\ ConditionsOf(parsed.val, child)[1].type =
                KindOf(OwnConnectives(child)[Len(OwnConnectives(child))])

\* the first word of a cleaned line
FirstWord(l) == Split(l, " ")[1]
\* something in the space read comes from the line: a condition fact of the
\* child it names, a forbidden clause, or a hyperparameter of the name it
\* opens with
Contributes(line, cs) ==
  LET l == CleanLine(line)
  IN IF Contains("|", l)
     THEN \E i \in 1..Len(cs.conds) :
            \E k \in 1..Len(ConditionLeaves(cs.conds[i])) :
              ConditionLeaves(cs.conds[i])[k].child = TextChild(line)
     ELSE IF StartsWith(l, "{") /\ EndsWith(l, "}")
     THEN \E i \in 1..Len(cs.forbs) :
            \E k \in 1..Len(get_descendant_literal_clauses(cs.forbs[i])) :
              Contains(get_descendant_literal_clauses(cs.forbs[i])[k].hyperparameter
                         \o "=", l)
     ELSE HasHyperparameter(cs, FirstWord(l))

\* C12: when read (either dialect) returns a space, every input line that is
\* not blank after the comment and the quotes are removed has contributed a
\* hyperparameter, a condition fact or a forbidden clause to that space.
C12_NothingDropped ==
  (pc = "done" /\ parsed.ok) =>
    \A i \in 1..Len(pcs_string) :
      CleanLine(pcs_string[i]) # "" => Contributes(pcs_string[i], parsed.val)

\* a cleaned line that read hands to the declaration grammars
IsDeclarationLine(l) ==
  /\ l # ""
  /\ ~Contains("|", l)
  /\ Contains("}", l) \/ Contains("]", l)
  /\ ~(StartsWith(l, "{") /\ EndsWith(l, "}"))
\* the match r of a grammar covers the whole of l
Whole(r, l) == r.ok /\ SkipWhite(l, r.pos) > Len(l)
\* the continuous or the categorical grammar of the dialect matches all of l
FullMatch(d, l) ==
  IF d = "pcs_new"
  THEN Whole(pcs_pp_cont_param(l), l) \/ Whole(pcs_pp_cat_param(l), l)
  ELSE Whole(irace_pp_cont_param(l), l) \/ Whole(irace_pp_cat_param(l), l)

\* C13: read (either dialect) fails whenever some declaration line of its
\* input is matched in full by neither the continuous nor the categorical
\* grammar; no hyperparameter is built from a matching prefix.
C13_FullLineMatch ==
  (pc = "done" /\ parsed # NotCalled) =>
    \A i \in 1..Len(pcs_string) :
      (/\ IsDeclarationLine(CleanLine(pcs_string[i]))
       /\ ~FullMatch(dialect, CleanLine(pcs_string[i]))) => ~parsed.ok

\* no call of `early` follows a call of `late` in the call sequence
NeverAfter(calls, late, early) ==
  \A i, j \in 1..Len(calls) : i < j => ~(calls[i] = late /\ calls[j] = early)
\* every add_hyperparameter call precedes every other call
HyperparametersFirst(calls) ==
  /\ NeverAfter(calls, "add_condition", "add_hyperparameter")
  /\ NeverAfter(calls, "add_forbidden_clause", "add_hyperparameter")

\* C14 as stated: in a space that read (either dialect) returns, every
\* add_hyperparameter call precedes every other call and every add_condition
\* call precedes every add_forbidden_clause call.
C14_ConditionsBeforeForbidden ==
  (pc = "done" /\ parsed.ok) =>
    /\ HyperparametersFirst(parsed.val.calls)
    /\ NeverAfter(parsed.val.calls, "add_forbidden_clause", "add_condition")

\* C14 amended: in a space that read (either dialect) returns, every
\* add_hyperparameter call precedes every other call and every
\* add_forbidden_clause call precedes every add_condition call, whatever the
\* order of the lines.
C14_ForbiddenBeforeConditions ==
  (pc = "done" /\ parsed.ok) =>
    /\ HyperparametersFirst(parsed.val.calls)
    /\ NeverAfter(parsed.val.calls, "add_condition", "add_forbidden_clause")

\* a file whose condition line comes before its forbidden literal has been
\* read, and the forbidden clause was attached first
C14_Witness ==
  /\ ReadFile("pcs_new") /\ parsed.ok
  /\ pcs_string = PcsDecls \o <<"d | p in {a}", "{p=a, q=1}">>
  /\ parsed.val.calls =
       <<"add_hyperparameter", "add_hyperparameter", "add_hyperparameter",
         "add_hyperparameter", "add_forbidden_clause", "add_condition">>

\* the forbidden literals of the input, in line order, read off the text
IsForbiddenLiteral(line) ==
  LET l == CleanLine(line)
  IN ~Contains("|", l) /\ StartsWith(l, "{") /\ EndsWith(l, "}")
ForbiddenLiterals == SelectSeq(pcs_string, IsForbiddenLiteral)
\* the atomics of "{p1=v1, ..., pn=vn}", in literal order
LiteralPairs(line) ==
  LET l == CleanLine(line)
      parts == Split(SubSeq(l, 2, Len(l) - 1), ",")
  IN [i \in 1..Len(parts) |->
        ForbiddenEqualsClause(Strip(Before(parts[i], Find("=", parts[i]))),
                              Strip(After(parts[i], Find("=", parts[i]))))]
\* the names the declaration lines of the input open with
DeclaredNames ==
  {FirstWord(CleanLine(pcs_string[i])) :
     i \in {k \in 1..Len(pcs_string) : IsDeclarationLine(CleanLine(pcs_string[k]))}}
NamesUndeclared(line) ==
  \E i \in 1..Len(LiteralPairs(line)) :
    LiteralPairs(line)[i].hyperparameter \notin DeclaredNames

\* C15: when read (either dialect) succeeds, the forbidden clauses of the
\* space are, in line order, one And conjunction per forbidden literal of the
\* input, holding one Equals atomic per name=value pair of the literal in
\* literal order, the last pair included; and read fails when a literal names
\* a parameter that no line declares.
C15_ForbiddenAssembly ==
  (pc = "done" /\ parsed # NotCalled) =>
    /\ parsed.ok =>
         parsed.val.forbs =
           [i \in 1..Len(ForbiddenLiterals) |->
              ForbiddenAndConjunction(LiteralPairs(ForbiddenLiterals[i]))]
    /\ (\E i \in 1..Len(ForbiddenLiterals) : NamesUndeclared(ForbiddenLiterals[i]))
         => ~parsed.ok

\* a file with a literal of three pairs has been read into one conjunction
\* of three atomics
C15_Witness ==
  /\ ReadFile("irace") /\ parsed.ok
  /\ pcs_string = IraceDecls \o <<"{p=a, q=1, c=0.5}">>
  /\ parsed.val.forbs =
       <<ForbiddenAndConjunction(<<ForbiddenEqualsClause("p", "a"),
                                   ForbiddenEqualsClause("q", "1"),
                                   ForbiddenEqualsClause("c", "0.5")>>)>>
  /\ parsed.val.calls[Len(parsed.val.calls)] = "add_forbidden_clause"

\* some top-level condition of the space has this hyperparameter as its child
HasCondition(cs, name) ==
  \E i \in 1..Len(cs.conds) : ConditionLeaves(cs.conds[i])[1].child = name

\* C16: in the text that write of the compact dialect returns, line i is the
\* line of hyperparameter i; it is the bare declaration when the
\* hyperparameter is the child of no condition, and the declaration followed
\* by condition text when it is the child of one.
C16_SpliceOwnLine ==
  (Wrote("irace") /\ written.ok) =>
    /\ Len(pcs_string) >= Len(space.hps)
    /\ \A i \in 1..Len(space.hps) :
         /\ StartsWith(pcs_string[i], irace_param_line(space.hps[i]).val)
         /\ HasCondition(space, space.hps[i].name) <=> Contains("|", pcs_string[i])
         /\ ~HasCondition(space, space.hps[i].name) =>
              pcs_string[i] = irace_param_line(space.hps[i]).val

\* the type keyword of a declaration line: its second word
TypeKeyword(l) == Split(l, " ")[2]
\* the continuous declaration lines of the input, cleaned
ContinuousDeclarations ==
  {CleanLine(pcs_string[i]) :
     i \in {k \in 1..Len(pcs_string) :
              /\ IsDeclarationLine(CleanLine(pcs_string[k]))
              /\ Whole(pcs_pp_cont_param(CleanLine(pcs_string[k])),
                       CleanLine(pcs_string[k]))}}

\* C17: when read of the explicit dialect succeeds, the hyperparameter of a
\* continuous declaration "name <type> [lower, upper] [default]" is an
\* integer one when the type keyword is "integer" and a float one when it is
\* "real", whatever the name.
C17_TypeMarker ==
  (pc = "done" /\ dialect = "pcs_new" /\ parsed.ok) =>
    \A l \in ContinuousDeclarations :
      /\ TypeKeyword(l) = "integer" =>
           get_hyperparameter(parsed.val, FirstWord(l)).val.type = "UniformInteger"
      /\ TypeKeyword(l) = "real" =>
           get_hyperparameter(parsed.val, FirstWord(l)).val.type = "UniformFloat"

\* C18: write of the compact dialect returns text for every space that read
\* of the compact dialect has returned.
C18_ReadThenWrite == pc = "rewritten" => rewritten.ok

====
